---- MODULE Spec2Model ----
(***************************************************************************)
(* Model of src/app.py: the cycle detection (analyze_cycle) and the        *)
(* per-date unit-cost verification (process_data, main).                   *)
(*                                                                         *)
(* Units.  A timestamp is a whole number of hours since 00:00 of day 0, so *)
(* the calendar date of t is t \div 24.  A gas reading is a whole number   *)
(* of tenths of Nm3.  A unit cost and the target are whole numbers of      *)
(* hundredths of Nm3/ton.  A nullable number (pandas NaN after             *)
(* errors='coerce') is <<>>, a present number v is <<v>>; the same option  *)
(* encoding is used for Python's None.                                     *)
(***************************************************************************)
EXTENDS Integers, Sequences, FiniteSets, TLC

VARIABLES
    df_prod,       \* production frame after lines 105-110: <<[date, charge]>>
    df_sensor,     \* sensor frame: concatenated (line 121), then sorted (129)
    target_cost,   \* target unit cost, hundredths
    common_dates,  \* sorted list of matched dates (line 136)
    i,             \* position of the for loop of line 142 in common_dates
    daily_window,  \* the window handed to analyze_cycle (line 148)
    cycle_info,    \* analyze_cycle's first result: <<>> or <<[start_row, ...]>>
    msg,           \* analyze_cycle's second result
    results,       \* the list of result rows (line 140)
    returned,      \* what process_data returned: <<>> or <<[res, raw]>>
    ui,            \* what main shows and keeps in st.session_state
    pc             \* where the run is

vars == <<df_prod, df_sensor, target_cost, common_dates, i, daily_window,
          cycle_info, msg, results, returned, ui, pc>>

-----------------------------------------------------------------------------
(* Program constants *)

StartTemp == 600
HoldLow == 1230
HoldHigh == 1270
MinHoldHours == 10
EndTemp == 900
WindowDays == 2
DefaultTarget == 2553

(* Bounds of the model *)

MaxWindow == 6
MaxSamples == 5

-----------------------------------------------------------------------------
(* Nullable numbers *)

NaN == <<>>
None == <<>>
Num(v) == <<v>>
IsNum(x) == x # NaN
Val(x) == x[1]

\* A comparison with NaN is False, as in numpy and pandas.
LeNum(x, c) == IsNum(x) /\ Val(x) <= c
GeNum(x, c) == IsNum(x) /\ Val(x) >= c
\* NaN propagates through a subtraction.
SubNum(x, y) == IF IsNum(x) /\ IsNum(y) THEN Num(Val(x) - Val(y)) ELSE NaN

SetMin(S) == CHOOSE x \in S : \A y \in S : x <= y
SetMax(S) == CHOOSE x \in S : \A y \in S : x >= y

-----------------------------------------------------------------------------
(* Messages *)

MsgNoStart == "no start temperature (<= 600)"
MsgNoHolding == "no valid holding interval (>= 10 h)"
MsgNoEnd == "end temperature (<= 900) not reached"
MsgSuccess == "success"
MsgNoMatch == "date matching failed"
MsgUiFailed == "analysis failed (no data matching the conditions)"

-----------------------------------------------------------------------------
(* analyze_cycle *)

is_holding(r) == GeNum(r.temp, HoldLow) /\ LeNum(r.temp, HoldHigh)

\* The cumulative sum of line 71: a new group id wherever is_holding differs
\* from the previous row's (the first row differs from its NaN shift).
RECURSIVE GroupUpTo(_, _)
GroupUpTo(post, k) ==
    IF k = 1 THEN 1
    ELSE GroupUpTo(post, k - 1)
         + (IF is_holding(post[k]) # is_holding(post[k - 1]) THEN 1 ELSE 0)

HoldingGroups(post) ==
    {GroupUpTo(post, k) : k \in {j \in 1..Len(post) : is_holding(post[j])}}

GroupTimes(post, g) ==
    {post[k].t : k \in {j \in 1..Len(post) :
                          is_holding(post[j]) /\ GroupUpTo(post, j) = g}}

duration(post, g) == SetMax(GroupTimes(post, g)) - SetMin(GroupTimes(post, g))

\* Mutant: a run of exactly the minimum duration does not count.
DurationLongEnough_Strict(d) == d > MinHoldHours

DurationLongEnough(d) == d >= MinHoldHours

\* The loop of lines 76-80: groups in ascending id, the first long enough wins.
HoldingEndTime(post) ==
    LET ok == {g \in HoldingGroups(post) : DurationLongEnough(duration(post, g))}
    IN  IF ok = {} THEN None
        ELSE Num(SetMax(GroupTimes(post, SetMin(ok))))

\* Mutant: exactly 600 does not start a cycle.
IsStartCandidate_Strict(r) == IsNum(r.temp) /\ Val(r.temp) < StartTemp

IsStartCandidate(r) == LeNum(r.temp, StartTemp)
IsEndCandidate(r) == LeNum(r.temp, EndTemp)

\* Line 64: the rows whose timestamp is later than the start row's.
post_start(daily_data, start_time) ==
    SelectSeq(daily_data, LAMBDA r : r.t > start_time)

\* Mutant: rows at the holding end's own timestamp are kept.
post_holding_Inclusive(daily_data, holding_end_time) ==
    SelectSeq(daily_data, LAMBDA r : r.t >= holding_end_time)

\* Line 86: the rows whose timestamp is later than the holding end.
post_holding(daily_data, holding_end_time) ==
    SelectSeq(daily_data, LAMBDA r : r.t > holding_end_time)

analyze_cycle(daily_data) ==
    LET start_candidates == SelectSeq(daily_data, IsStartCandidate)
    IN  IF start_candidates = <<>>
        THEN [info |-> None, msg |-> MsgNoStart]
        ELSE
        LET start_row == start_candidates[1]
            start_time == start_row.t
            post_start_data == post_start(daily_data, start_time)
            holding_end_time == HoldingEndTime(post_start_data)
        IN  IF holding_end_time = None
            THEN [info |-> None, msg |-> MsgNoHolding]
            ELSE
            LET post_holding_data == post_holding(daily_data, Val(holding_end_time))
                end_candidates == SelectSeq(post_holding_data, IsEndCandidate)
            IN  IF end_candidates = <<>>
                THEN [info |-> None, msg |-> MsgNoEnd]
                ELSE [info |-> <<[start_row |-> start_row,
                                  end_row |-> end_candidates[1],
                                  holding_end |-> Val(holding_end_time)]>>,
                      msg |-> MsgSuccess]

-----------------------------------------------------------------------------
(* Input frames *)

\* One row of the sensor frame.
Sample(time, temp, gas) == [t |-> time, temp |-> temp, gas |-> gas]

RECURSIVE FrameOf(_, _, _, _)
\* The rows of the slots S in slot order, slot k at time times[k] with the
\* temperature and gas reading kind[k] gives it.
FrameOf(S, times, kind, k) ==
    IF k > Len(times) THEN <<>>
    ELSE (IF k \in S THEN <<Sample(times[k], kind[k][1], kind[k][2])>> ELSE <<>>)
         \o FrameOf(S, times, kind, k + 1)

\* One 48-hour window; two samples share the timestamp 20.
WindowTimes == <<0, 10, 20, 20, 24, 34, 44>>
WindowKinds ==
    {<<Num(600), Num(10)>>, <<Num(900), Num(10)>>, <<Num(1230), Num(10)>>,
     <<Num(1270), Num(10)>>, <<Num(1271), Num(10)>>, <<NaN, Num(10)>>}

-----------------------------------------------------------------------------
(* analyze_cycle applied to one window *)

InitCycle ==
    /\ df_prod = <<>>
    /\ df_sensor = <<>>
    /\ target_cost = DefaultTarget
    /\ common_dates = <<>>
    /\ i = 1
    /\ \E S \in SUBSET (1..Len(WindowTimes)) :
          /\ Cardinality(S) <= MaxWindow
          /\ \E kind \in [S -> WindowKinds] :
                daily_window = FrameOf(S, WindowTimes, kind, 1)
    /\ cycle_info = None
    /\ msg = ""
    /\ results = <<>>
    /\ returned = None
    /\ ui = None
    /\ pc = "analyze"

AnalyzeCycle ==
    /\ pc = "analyze"
    /\ LET r == analyze_cycle(daily_window)
       IN  /\ cycle_info' = r.info
           /\ msg' = r.msg
    /\ pc' = "analyzed"
    /\ UNCHANGED <<df_prod, df_sensor, target_cost, common_dates, i,
                   daily_window, results, returned, ui>>

NextCycle == AnalyzeCycle

SpecCycle == InitCycle /\ [][NextCycle]_vars

-----------------------------------------------------------------------------
(* process_data *)

\* The rows of r placed after every row whose timestamp is not later.
InsertByTime(sorted, r) ==
    LET n == Cardinality({k \in 1..Len(sorted) : sorted[k].t <= r.t})
    IN  SubSeq(sorted, 1, n) \o <<r>> \o SubSeq(sorted, n + 1, Len(sorted))

RECURSIVE sort_values(_)
\* sort_values of line 129, by insertion.  The order pandas gives rows of equal
\* timestamp is not fixed; the frames sorted here hold no two such rows, and
\* the windows given to analyze_cycle directly come in either order.
sort_values(frame) ==
    IF frame = <<>> THEN <<>>
    ELSE InsertByTime(sort_values(SubSeq(frame, 1, Len(frame) - 1)),
                      frame[Len(frame)])

\* .dt.date
DateOf(time) == time \div 24
\* pd.to_datetime(date): 00:00 of the date
Midnight(date) == date * 24

RECURSIVE SortedList(_)
SortedList(S) ==
    IF S = {} THEN <<>> ELSE <<SetMin(S)>> \o SortedList(S \ {SetMin(S)})

prod_dates(prod) == {prod[k].date : k \in 1..Len(prod)}
sensor_dates(sensor) == {DateOf(sensor[k].t) : k \in 1..Len(sensor)}

\* Lines 148-151.
WindowOf(sensor, date) ==
    SelectSeq(sensor, LAMBDA r :
        r.t >= Midnight(date) /\ r.t < Midnight(date) + WindowDays * 24)

\* round(x, 2) of the quotient num / den (den > 0) counted in hundredths:
\* to the nearest, a tie to the even neighbour.
RoundHalfEven(num, den) ==
    LET q == num \div den
        r == num % den
    IN  IF 2 * r < den THEN q
        ELSE IF 2 * r > den THEN q + 1
        ELSE IF q % 2 = 0 THEN q ELSE q + 1

\* Mutant: a zero delta is accepted.
GasRejected_Negative(gas_used) == IsNum(gas_used) /\ Val(gas_used) < 0

\* Line 166: a NaN delta is not <= 0.
GasRejected(gas_used) == LeNum(gas_used, 0)

\* Mutant: a unit cost equal to the target fails.
is_pass_Strict(gas_used, charge_kg, target) == gas_used * 10000 < target * charge_kg

\* Line 169 on the exact quotient: gas_used / (charge_kg / 1000) <= target_cost,
\* gas in tenths, the target in hundredths.
is_pass(gas_used, charge_kg, target) == gas_used * 10000 <= target * charge_kg

\* Lines 171-182.
ResultRow(date, info, gas_used, charge_kg, target) ==
    [date |-> date,
     start_time |-> info.start_row.t,
     start_reading |-> info.start_row.gas,
     end_time |-> info.end_row.t,
     end_reading |-> info.end_row.gas,
     gas_used |-> gas_used \div 10,
     charge |-> charge_kg,
     unit |-> RoundHalfEven(gas_used * 10000, charge_kg),
     verdict |-> IF is_pass(gas_used, charge_kg, target) THEN "Pass" ELSE "Fail",
     note |-> info.holding_end % 24]

\* Lines 158-182 for one date: "skip" (continue), "raise" or "row".
Evaluate(date, info, prod, target) ==
    IF info = None THEN [kind |-> "skip"]
    ELSE
    LET start == info[1].start_row
        end == info[1].end_row
        prod_row == SelectSeq(prod, LAMBDA p : p.date = date)
    IN  IF prod_row = <<>> THEN [kind |-> "raise"]
        ELSE
        LET charge_kg == prod_row[1].charge
            gas_used == SubNum(end.gas, start.gas)
        IN  IF charge_kg <= 0 THEN [kind |-> "skip"]
            ELSE IF GasRejected(gas_used) THEN [kind |-> "skip"]
            ELSE IF ~IsNum(gas_used) THEN [kind |-> "raise"]
            ELSE [kind |-> "row",
                  row |-> ResultRow(date, info[1], Val(gas_used), charge_kg, target)]

\* The date counts a value returned by process_data carries: lines 138 and 184
\* return a fixed text or the table and the frame, and no count.
ReturnedCounts(ret) == {}

\* Lines 124-140: sort the sensor frame, match the dates.
Preprocess ==
    /\ pc = "preprocess"
    /\ df_sensor' = sort_values(df_sensor)
    /\ common_dates' = SortedList(prod_dates(df_prod) \cap sensor_dates(df_sensor'))
    /\ IF common_dates' = <<>>
       THEN /\ returned' = <<[res |-> None, raw |-> None, text |-> MsgNoMatch]>>
            /\ pc' = "returned"
       ELSE /\ returned' = returned
            /\ pc' = "loop"
    /\ results' = <<>>
    /\ i' = 1
    /\ UNCHANGED <<df_prod, target_cost, daily_window, cycle_info, msg, ui>>

\* Lines 142-182: one iteration of the loop over common_dates.
LoopBody ==
    /\ pc = "loop"
    /\ i <= Len(common_dates)
    /\ LET date == common_dates[i]
           window == WindowOf(df_sensor, date)
       IN  /\ daily_window' = window
           /\ IF window = <<>>
              THEN UNCHANGED <<cycle_info, msg, results, pc>>
              ELSE LET r == analyze_cycle(window)
                       e == Evaluate(date, r.info, df_prod, target_cost)
                   IN  /\ cycle_info' = r.info
                       /\ msg' = r.msg
                       /\ results' = IF e.kind = "row"
                                     THEN Append(results, e.row) ELSE results
                       /\ pc' = IF e.kind = "raise" THEN "raised" ELSE "loop"
    /\ i' = i + 1
    /\ UNCHANGED <<df_prod, df_sensor, target_cost, common_dates, returned, ui>>

\* Line 184.
Return ==
    /\ pc = "loop"
    /\ i > Len(common_dates)
    /\ returned' = <<[res |-> <<results>>, raw |-> <<df_sensor>>, text |-> ""]>>
    /\ pc' = "returned"
    /\ UNCHANGED <<df_prod, df_sensor, target_cost, common_dates, i,
                   daily_window, cycle_info, msg, results, ui>>

\* main, lines 296-301: keep the result or report the failure.
ShowResult ==
    /\ pc = "returned"
    /\ ui' = IF returned[1].res # None
             THEN <<[res |-> returned[1].res, raw |-> returned[1].raw,
                     text |-> "analysis complete", count |-> Len(returned[1].res[1])]>>
             ELSE <<[res |-> None, raw |-> None, text |-> MsgUiFailed, count |-> 0]>>
    /\ pc' = "shown"
    /\ UNCHANGED <<df_prod, df_sensor, target_cost, common_dates, i,
                   daily_window, cycle_info, msg, results, returned>>

Next == Preprocess \/ LoopBody \/ Return \/ ShowResult

\* Sample times over three calendar days: 0 on day 0, 24..46 on day 1, 48 on day 2.
RunTimes == <<0, 24, 34, 44, 46, 48>>
RunKinds ==
    {<<Num(600), Num(10)>>, <<Num(600), NaN>>, <<Num(900), Num(15)>>,
     <<Num(1230), Num(10)>>}
ProdDays == {0, 1}
RunCharges == {0, 1000}

\* The frame of two uploaded files, the later file first.
SwapHalves(frame) ==
    SubSeq(frame, Len(frame) \div 2 + 1, Len(frame)) \o SubSeq(frame, 1, Len(frame) \div 2)

InitCommon ==
    /\ common_dates = <<>>
    /\ i = 1
    /\ daily_window = <<>>
    /\ cycle_info = None
    /\ msg = ""
    /\ results = <<>>
    /\ returned = None
    /\ ui = None
    /\ pc = "preprocess"

Init ==
    /\ \E D \in SUBSET ProdDays : \E c \in [D -> RunCharges] :
          df_prod = [k \in 1..Cardinality(D) |->
                        [date |-> SortedList(D)[k], charge |-> c[SortedList(D)[k]]]]
    /\ \E S \in SUBSET (1..Len(RunTimes)) :
          /\ Cardinality(S) <= MaxSamples
          /\ \E kind \in [S -> RunKinds] : \E swap \in BOOLEAN :
                LET frame == FrameOf(S, RunTimes, kind, 1)
                IN  df_sensor = IF swap THEN SwapHalves(frame) ELSE frame
    /\ target_cost = DefaultTarget
    /\ InitCommon

Spec == Init /\ [][Next]_vars

\* One complete cycle (600 at 0, 1230 from 24 to 34, 900 at 44) with every
\* choice of the two meter readings, the charge weight and the target.
CostReadings == {NaN, Num(0), Num(5), Num(10), Num(15), Num(20)}
CostCharges == {0 - 1000, 0, 1000, 3000}
CostTargets == {16, 17, 33, 50, DefaultTarget}

InitCost ==
    /\ \E c \in CostCharges : df_prod = <<[date |-> 0, charge |-> c]>>
    /\ \E g0 \in CostReadings : \E g1 \in CostReadings : \E swap \in BOOLEAN :
          LET frame == <<Sample(0, Num(600), g0), Sample(24, Num(1230), Num(10)),
                         Sample(34, Num(1230), Num(10)), Sample(44, Num(900), g1)>>
          IN  df_sensor = IF swap THEN SwapHalves(frame) ELSE frame
    /\ target_cost \in CostTargets
    /\ InitCommon

SpecCost == InitCost /\ [][Next]_vars

-----------------------------------------------------------------------------
(* Properties of analyze_cycle, stated on the window it was given *)

Analyzed == pc = "analyzed"

Cold(r) == r.temp # <<>> /\ r.temp[1] <= 600
InBand(r) == r.temp # <<>> /\ r.temp[1] >= 1230 /\ r.temp[1] <= 1270
Cooled(r) == r.temp # <<>> /\ r.temp[1] <= 900

\* Position of the first sample at or below 600 (0: none).
FirstCold(w) ==
    LET C == {k \in 1..Len(w) : Cold(w[k])}
    IN  IF C = {} THEN 0 ELSE SetMin(C)

\* Positions of the samples whose timestamp is later than the start sample's.
AfterStart(w) == {k \in 1..Len(w) : w[k].t > w[FirstCold(w)].t}

\* The maximal runs <<a, b>> of consecutive in-band samples after the start
\* whose span is at least 10 hours.
QualifyingRuns(w) ==
    LET P == AfterStart(w)
    IN  {ab \in P \X P :
            /\ ab[1] <= ab[2]
            /\ \A k \in ab[1]..ab[2] : InBand(w[k])
            /\ (ab[1] - 1 \in P => ~InBand(w[ab[1] - 1]))
            /\ (ab[2] + 1 \in P => ~InBand(w[ab[2] + 1]))
            /\ w[ab[2]].t - w[ab[1]].t >= 10}

EarliestRun(w) ==
    CHOOSE ab \in QualifyingRuns(w) : \A cd \in QualifyingRuns(w) : ab[1] <= cd[1]

\* C1: after the start sample (by timestamp), the holding interval is the
\* earliest maximal in-band run spanning at least 10 hours and holding_end is
\* the timestamp of its last sample; when no run qualifies detection fails with
\* the no-holding reason and yields no cycle.
C1_EarliestQualifyingRun ==
    (Analyzed /\ FirstCold(daily_window) # 0) =>
        IF QualifyingRuns(daily_window) = {}
        THEN cycle_info = None /\ msg = MsgNoHolding
        ELSE /\ msg # MsgNoHolding
             /\ (cycle_info # None =>
                    cycle_info[1].holding_end
                        = daily_window[EarliestRun(daily_window)[2]].t)

\* Two runs qualify and a cycle is detected on the earlier one.
C1_Witness ==
    /\ Analyzed
    /\ FirstCold(daily_window) # 0
    /\ Cardinality(QualifyingRuns(daily_window)) >= 2
    /\ cycle_info # None

\* Positions at or below 900 whose timestamp is later than the holding end.
CooledLater(w) ==
    {k \in 1..Len(w) :
        Cooled(w[k]) /\ w[k].t > w[EarliestRun(w)[2]].t}

\* Positions at or below 900 that follow the last sample of the holding run.
CooledBehind(w) ==
    {k \in 1..Len(w) : Cooled(w[k]) /\ k > EarliestRun(w)[2]}

HoldingFound(w) == FirstCold(w) # 0 /\ QualifyingRuns(w) # {}

\* C3 (amended): the end sample is the first sample at or below 900 whose
\* timestamp is strictly later than the holding end; samples sharing the
\* holding end's timestamp are skipped; with no such sample detection fails
\* as an incomplete cycle.
C3_EndAfterHoldingTime ==
    (Analyzed /\ HoldingFound(daily_window)) =>
        IF CooledLater(daily_window) = {}
        THEN cycle_info = None /\ msg = MsgNoEnd
        ELSE /\ cycle_info # None
             /\ cycle_info[1].end_row
                    = daily_window[SetMin(CooledLater(daily_window))]

\* C3 (as claimed): the end sample is the first sample at or below 900 from
\* the sample right after the holding run's last sample onward, also when
\* samples share the holding end's timestamp.
C3_EndAfterHoldingSample ==
    (Analyzed /\ HoldingFound(daily_window)) =>
        IF CooledBehind(daily_window) = {}
        THEN cycle_info = None /\ msg = MsgNoEnd
        ELSE /\ cycle_info # None
             /\ cycle_info[1].end_row
                    = daily_window[SetMin(CooledBehind(daily_window))]

\* A sample at or below 900 shares the holding end's timestamp, follows the
\* holding run, and the cycle ends on a later sample.
C3_Witness ==
    /\ Analyzed
    /\ HoldingFound(daily_window)
    /\ cycle_info # None
    /\ \E k \in CooledBehind(daily_window) :
          daily_window[k].t = daily_window[EarliestRun(daily_window)[2]].t

\* The window without the samples whose temperature or gas reading is null.
DropNulls(w) == SelectSeq(w, LAMBDA r : r.temp # <<>> /\ r.gas # <<>>)

\* C6: the outcome for a window is the outcome for the window with every
\* null-temperature or null-gas sample removed.
C6_NullSamplesExcluded ==
    Analyzed =>
        LET r == analyze_cycle(DropNulls(daily_window))
        IN  cycle_info = r.info /\ msg = r.msg

-----------------------------------------------------------------------------
(* Properties of process_data *)

\* The date the last finished loop iteration handled (when i > 1).
LastDate == common_dates[i - 1]

RowsOf(date) == {k \in 1..Len(results) : results[k].date = date}

\* The samples of the sorted frame in [date 00:00, date + 2 days).
TwoDayWindow(date) ==
    SelectSeq(df_sensor, LAMBDA r : r.t >= 24 * date /\ r.t < 24 * (date + 2))

\* C2: the start sample of an anchor date is the first sample of its 2-day
\* window at or below 600 (exactly 600 counts); with no such sample detection
\* fails with the no-start reason and the date yields no row.
C2_StartIsFirstCold ==
    i > 1 =>
        LET w == TwoDayWindow(LastDate)
        IN  /\ daily_window = w
            /\ IF FirstCold(w) = 0
               THEN /\ cycle_info = None
                    /\ msg = MsgNoStart
                    /\ RowsOf(LastDate) = {}
               ELSE /\ msg # MsgNoStart
                    /\ (cycle_info # None =>
                           cycle_info[1].start_row = w[FirstCold(w)])
                    /\ \A k \in RowsOf(LastDate) :
                           /\ results[k].start_time = w[FirstCold(w)].t
                           /\ results[k].start_reading = w[FirstCold(w)].gas

\* A row whose start sample, at exactly 600, is not the first sample of the window.
C2_Witness ==
    /\ i > 1
    /\ RowsOf(LastDate) # {}
    /\ FirstCold(TwoDayWindow(LastDate)) > 1
    /\ TwoDayWindow(LastDate)[FirstCold(TwoDayWindow(LastDate))].temp = <<600>>

RowDelta(row) == row.end_reading[1] - row.start_reading[1]

\* C4 (amended): a row's verdict is Pass exactly when the unrounded unit cost
\* gas_used / (charge_weight_kg / 1000) is <= the target; the unit cost the
\* row reports is that quotient rounded to two decimals.
C4_VerdictOnExactUnitCost ==
    \A k \in 1..Len(results) :
        LET row == results[k]
        IN  /\ row.verdict \in {"Pass", "Fail"}
            /\ (row.verdict = "Pass") <=> (RowDelta(row) * 10000 <= target_cost * row.charge)
            /\ 2 * (row.unit * row.charge - RowDelta(row) * 10000) <= row.charge
            /\ 2 * (RowDelta(row) * 10000 - row.unit * row.charge) <= row.charge

\* C4 (as claimed): a row's verdict is Pass exactly when the unit cost the
\* row reports is <= the target.
C4_VerdictOnReportedUnitCost ==
    \A k \in 1..Len(results) :
        (results[k].verdict = "Pass") <=> (results[k].unit <= target_cost)

\* A Fail row whose reported unit cost equals the target.
C4_Witness ==
    \E k \in 1..Len(results) :
        results[k].verdict = "Fail" /\ results[k].unit = target_cost

\* C5: every row's end reading is greater than its start reading, the readings
\* are those of the cycle's samples, and a date whose delta is <= 0 gets no row.
C5_PositiveGasDelta ==
    /\ \A k \in 1..Len(results) :
          /\ results[k].start_reading # <<>>
          /\ results[k].end_reading # <<>>
          /\ results[k].end_reading[1] > results[k].start_reading[1]
    /\ (i > 1 /\ cycle_info # None) =>
          LET s == cycle_info[1].start_row.gas
              e == cycle_info[1].end_row.gas
          IN  /\ (s # <<>> /\ e # <<>> /\ e[1] - s[1] <= 0) => RowsOf(LastDate) = {}
              /\ \A k \in RowsOf(LastDate) :
                    results[k].start_reading = s /\ results[k].end_reading = e

\* A detected cycle with a positive charge weight and a delta <= 0: no row.
C5_Witness ==
    /\ i > 1
    /\ cycle_info # None
    /\ cycle_info[1].start_row.gas # <<>>
    /\ cycle_info[1].end_row.gas # <<>>
    /\ cycle_info[1].end_row.gas[1] <= cycle_info[1].start_row.gas[1]
    /\ \A k \in 1..Len(df_prod) : df_prod[k].charge > 0
    /\ pc = "shown"
    /\ results = <<>>

\* C7: process_data never raises for a per-date condition.
C7_NeverRaises == pc # "raised"

\* The reason a matched date without a row was rejected for.
RejectionReason(date) ==
    LET r == analyze_cycle(TwoDayWindow(date))
        charge == (CHOOSE p \in {df_prod[k] : k \in 1..Len(df_prod)} : p.date = date).charge
    IN  IF r.info = None THEN r.msg
        ELSE IF charge <= 0 THEN "non-positive charge weight"
        ELSE "non-positive gas delta"

\* The texts the run hands back: process_data's and main's.
OutputTexts == {returned[1].text, ui[1].text}

\* C8: the output of a finished run retains the specific rejection reason of
\* every matched date that got no row.
C8_ReasonsRetained ==
    pc = "shown" =>
        \A k \in 1..Len(common_dates) :
            RowsOf(common_dates[k]) = {} => RejectionReason(common_dates[k]) \in OutputTexts

\* C9: with no date in common, process_data returns no results and the exact
\* count of distinct dates on each side with the matched count 0.
C9_CountsReturned ==
    (/\ returned # None
     /\ prod_dates(df_prod) # {}
     /\ sensor_dates(df_sensor) # {}
     /\ prod_dates(df_prod) \cap sensor_dates(df_sensor) = {}) =>
        /\ returned[1].res = None
        /\ [production |-> Cardinality(prod_dates(df_prod)),
            sensor |-> Cardinality(sensor_dates(df_sensor)),
            matched |-> 0] \in ReturnedCounts(returned[1])

\* C10: no two rows of different anchor dates report the same cycle.
C10_OneDatePerCycle ==
    \A a \in 1..Len(results) : \A b \in 1..Len(results) :
        results[a].date # results[b].date =>
            ~ /\ results[a].start_time = results[b].start_time
              /\ results[a].start_reading = results[b].start_reading
              /\ results[a].end_time = results[b].end_time
              /\ results[a].end_reading = results[b].end_reading

====
